---- MODULE Spec2Model ----
(***************************************************************************)
(* A model of envpath's expression resolver: EnvPath::de() and the chain   *)
(* resolvers it calls (src/src/parser.rs, os_env.rs, base_dirs.rs,         *)
(* const_dirs.rs, value.rs, project_dirs.rs), and of the constructors and  *)
(* accessors of an EnvPath (src/src/envpath_core/mod.rs, from.rs,          *)
(* deref.rs, serialisation.rs).                                            *)
(*                                                                         *)
(* A Rust string is a sequence of characters, each character a one-letter  *)
(* TLA+ string; the two full-width separators are the characters "FC"      *)
(* (U+FF1A) and "FQ" (U+FF1F).  An Option<OsString> is <<"None">> or       *)
(* <<"Some", v>>; a panic of the Rust code is the extra outcome            *)
(* <<"Panic">>, which every caller passes on unchanged (unwinding).        *)
(***************************************************************************)
EXTENDS Integers, Sequences, FiniteSets, TLC

VARIABLES
    raw,        \* EnvPath.raw: the sequence of raw strings
    path,       \* EnvPath.path: Option<PathBuf>
    op,         \* the last operation applied to the EnvPath
    arg,        \* the sequence handed to the last set_raw() or constructor
    panicked,   \* TRUE once an operation has panicked
    trace,      \* what the last de() did, one record per element it folded
    env,        \* the process environment: variable name -> value
    fs,         \* the paths that exist on disk
    dirs,       \* the answers of the `dirs` crate: function name -> Option
    doc         \* the document last serialized: Option of a list of strings

vars == <<raw, path, op, arg, panicked, trace, env, fs, dirs, doc>>

---------------------------------------------------------------------------
(* Option / OsCow values *)

None == <<"None">>
Panic == <<"Panic">>
Some(v) == <<"Some", v>>
IsSome(o) == o[1] = "Some"

\* `let v = ...; F(v)`: the value is computed once and named
Bind(v, F(_)) == F(v)

---------------------------------------------------------------------------
(* Separator characters *)

FULL_COLON == "FC"
HALF_COLON == ":"
FWQM == "FQ"
HWQM == "?"
\* the ' ' that get_question_mark_separator returns when no question mark occurs
NoSeparator == " "

---------------------------------------------------------------------------
(* str methods of the Rust standard library, as the resolver uses them *)

IsWhitespace(c) == c = " "

RECURSIVE TrimStart(_)
TrimStart(s) ==
    IF s # <<>> /\ IsWhitespace(Head(s)) THEN TrimStart(Tail(s)) ELSE s

RECURSIVE TrimEnd(_)
TrimEnd(s) ==
    IF s # <<>> /\ IsWhitespace(s[Len(s)])
    THEN TrimEnd(SubSeq(s, 1, Len(s) - 1))
    ELSE s

Trim(s) == TrimEnd(TrimStart(s))

\* str::find(char): the index of the first occurrence, 0 for None
Find(s, c) ==
    IF \E i \in 1..Len(s) : s[i] = c
    THEN CHOOSE i \in 1..Len(s) : s[i] = c /\ \A j \in 1..(i - 1) : s[j] # c
    ELSE 0

\* str::rfind(char): the index of the last occurrence, 0 for None
RFind(s, c) ==
    IF \E i \in 1..Len(s) : s[i] = c
    THEN CHOOSE i \in 1..Len(s) : s[i] = c /\ \A j \in (i + 1)..Len(s) : s[j] # c
    ELSE 0

Contains(s, c) == \E i \in 1..Len(s) : s[i] = c

StartsWith(s, p) == Len(p) <= Len(s) /\ SubSeq(s, 1, Len(p)) = p

RECURSIVE TrimStartMatches(_, _)
TrimStartMatches(s, p) ==
    IF p # <<>> /\ StartsWith(s, p)
    THEN TrimStartMatches(SubSeq(s, Len(p) + 1, Len(s)), p)
    ELSE s

\* str::split(char): always at least one piece
RECURSIVE Split(_, _)
Split(s, c) ==
    LET i == Find(s, c)
    IN  IF i = 0
        THEN <<s>>
        ELSE <<SubSeq(s, 1, i - 1)>> \o Split(SubSeq(s, i + 1, Len(s)), c)

\* str::split_terminator(char): split, with an empty last piece skipped
SplitTerminator(s, c) ==
    LET p == Split(s, c)
    IN  IF p[Len(p)] = <<>> THEN SubSeq(p, 1, Len(p) - 1) ELSE p

\* str::splitn(2, char)
SplitN2(s, c) ==
    LET i == Find(s, c)
    IN  IF i = 0
        THEN <<s>>
        ELSE <<SubSeq(s, 1, i - 1), SubSeq(s, i + 1, Len(s))>>

TrimAll(ps) == [i \in 1..Len(ps) |-> Trim(ps[i])]

LowerCase ==
    <<"a", "b", "c", "d", "e", "f", "g", "h", "i", "j", "k", "l", "m",
      "n", "o", "p", "q", "r", "s", "t", "u", "v", "w", "x", "y", "z">>

UpperCase ==
    <<"A", "B", "C", "D", "E", "F", "G", "H", "I", "J", "K", "L", "M",
      "N", "O", "P", "Q", "R", "S", "T", "U", "V", "W", "X", "Y", "Z">>

ToAsciiUppercaseChar(c) ==
    IF \E i \in 1..Len(LowerCase) : LowerCase[i] = c
    THEN UpperCase[CHOOSE i \in 1..Len(LowerCase) : LowerCase[i] = c]
    ELSE c

ToAsciiUppercase(s) == [i \in 1..Len(s) |-> ToAsciiUppercaseChar(s[i])]

\* the byte loop of de(): every '-' becomes '_'
ReplaceDash(s) == [i \in 1..Len(s) |-> IF s[i] = "-" THEN "_" ELSE s[i]]

RECURSIVE Concat(_)
Concat(ps) == IF ps = <<>> THEN <<>> ELSE Head(ps) \o Concat(Tail(ps))

\* [..].join(sep) of a sequence of strings
RECURSIVE JoinWith(_, _)
JoinWith(ps, sep) ==
    IF ps = <<>> THEN <<>>
    ELSE IF Len(ps) = 1 THEN ps[1]
    ELSE ps[1] \o sep \o JoinWith(Tail(ps), sep)

\* the elements of a sequence that are not empty, in order
RECURSIVE NonEmpty(_)
NonEmpty(ps) ==
    IF ps = <<>> THEN <<>>
    ELSE IF Head(ps) = <<>> THEN NonEmpty(Tail(ps))
    ELSE <<Head(ps)>> \o NonEmpty(Tail(ps))

\* Path::join on unix: an absolute component replaces the path
PathJoin(acc, p) ==
    IF p # <<>> /\ Head(p) = "/" THEN p
    ELSE IF acc = <<>> THEN p
    ELSE IF acc[Len(acc)] = "/" THEN acc \o p
    ELSE acc \o <<"/">> \o p

\* Path::exists(): the empty path never exists
Exists(p) == p \in fs


---------------------------------------------------------------------------
(* The providers: environment, `dirs`, `directories::ProjectDirs`, consts *)

\* std::env::var_os / EnvPath::into_os_env
into_os_env(x) == IF x \in DOMAIN env THEN Some(env[x]) ELSE None

\* the functions of the `dirs` crate
DirsFns ==
    { "audio_dir", "cache_dir", "config_dir", "data_dir", "data_local_dir",
      "config_local_dir", "desktop_dir", "home_dir", "preference_dir",
      "public_dir", "runtime_dir", "state_dir", "template_dir", "video_dir",
      "executable_dir", "font_dir", "document_dir", "download_dir",
      "picture_dir" }

\* set_dir() off Android, and into_cow(): the answer of the dirs function
set_dir(p) == dirs[p]

\* set_bin_dir() on unix
set_bin_dir ==
    IF IsSome(dirs["executable_dir"]) THEN dirs["executable_dir"]
    ELSE IF IsSome(dirs["home_dir"])
    THEN Some(PathJoin(dirs["home_dir"][2], <<".", "l", "o", "c", "a", "l", "/", "b", "i", "n">>))
    ELSE IF IsSome(dirs["data_local_dir"])
    THEN Some(PathJoin(dirs["data_local_dir"][2], <<"b", "i", "n">>))
    ELSE None

\* set_font_dir() on unix
set_font_dir ==
    IF IsSome(dirs["font_dir"]) THEN dirs["font_dir"]
    ELSE IF IsSome(dirs["data_dir"])
    THEN Some(PathJoin(dirs["data_dir"][2], <<"f", "o", "n", "t", "s">>))
    ELSE None

\* set_double_ended_path(): the first or last entry of $PATH
set_double_ended_path(s) ==
    Bind(into_os_env(<<"P", "A", "T", "H">>), LAMBDA p :
        IF ~IsSome(p) THEN None
        ELSE Bind(Split(p[2], ":"), LAMBDA entries :
                 IF s = "first" THEN Some(entries[1])
                 ELSE IF s = "last" THEN Some(entries[Len(entries)])
                 ELSE None))

\* std::env::temp_dir() on unix
temp_dir ==
    IF IsSome(into_os_env(<<"T", "M", "P", "D", "I", "R">>)) THEN into_os_env(<<"T", "M", "P", "D", "I", "R">>)[2] ELSE <<"/", "t", "m", "p">>

\* get_tmp_dir(): $TMPDIR, else the system one unless it is missing
\* (a read-only one is not told apart from a missing one)
get_tmp_dir ==
    IF IsSome(into_os_env(<<"T", "M", "P", "D", "I", "R">>)) THEN into_os_env(<<"T", "M", "P", "D", "I", "R">>)[2]
    ELSE IF Exists(temp_dir) THEN temp_dir
    ELSE IF IsSome(dirs["cache_dir"])
    THEN PathJoin(dirs["cache_dir"][2], <<"t", "m", "p">>)
    ELSE <<".", "t", "m", "p">>

PKG_NAME == <<"e", "n", "v", "p", "a", "t", "h">>
PKG_VERSION == <<"0", ".", "0", ".", "1">>

\* the arms of match_base_dirs that answer with one dirs function
BaseDirsTable ==
    { <<<<"m", "u", "s", "i", "c">>, "audio_dir">>, <<<<"a", "u", "d", "i", "o">>, "audio_dir">>,
      <<<<"c", "a", "c", "h", "e">>, "cache_dir">>,
      <<<<"c", "f", "g">>, "config_dir">>, <<<<"c", "o", "n", "f", "i", "g">>, "config_dir">>,
      <<<<"d", "a", "t", "a">>, "data_dir">>,
      <<<<"l", "o", "c", "a", "l", "_", "d", "a", "t", "a">>, "data_local_dir">>, <<<<"l", "o", "c", "a", "l", "-", "d", "a", "t", "a">>, "data_local_dir">>,
      <<<<"l", "o", "c", "a", "l", "-", "c", "f", "g">>, "config_local_dir">>, <<<<"l", "o", "c", "a", "l", "_", "c", "f", "g">>, "config_local_dir">>,
      <<<<"l", "o", "c", "a", "l", "_", "c", "o", "n", "f", "i", "g">>, "config_local_dir">>,
      <<<<"d", "e", "s", "k", "t", "o", "p">>, "desktop_dir">>,
      <<<<"d", "o", "c">>, "data_local_dir">>, <<<<"d", "o", "c", "u", "m", "e", "n", "t">>, "data_local_dir">>,
      <<<<"d", "o", "c", "u", "m", "e", "n", "t", "a", "t", "i", "o", "n">>, "data_local_dir">>,
      <<<<"d", "l">>, "data_local_dir">>, <<<<"d", "o", "w", "n", "l", "o", "a", "d">>, "data_local_dir">>,
      <<<<"h", "o", "m", "e">>, "home_dir">>,
      <<<<"p", "i", "c">>, "audio_dir">>, <<<<"p", "i", "c", "t", "u", "r", "e">>, "audio_dir">>,
      <<<<"p", "r", "e", "f">>, "preference_dir">>, <<<<"p", "r", "e", "f", "e", "r", "e", "n", "c", "e">>, "preference_dir">>,
      <<<<"p", "u", "b">>, "public_dir">>, <<<<"p", "u", "b", "l", "i", "c">>, "public_dir">>,
      <<<<"r", "u", "n", "t", "i", "m", "e">>, "runtime_dir">>,
      <<<<"s", "t", "a", "t", "e">>, "state_dir">>,
      <<<<"t", "e", "m", "p", "l", "a", "t", "e">>, "template_dir">>,
      <<<<"v", "i", "d", "e", "o">>, "video_dir">>, <<<<"m", "o", "v", "i", "e">>, "video_dir">>,
      <<<<"c", "l", "i", "-", "d", "a", "t", "a">>, "data_local_dir">>, <<<<"c", "l", "i", "_", "d", "a", "t", "a">>, "data_local_dir">>,
      <<<<"c", "l", "i", "-", "c", "f", "g">>, "config_local_dir">>, <<<<"c", "l", "i", "_", "c", "f", "g">>, "config_local_dir">>,
      <<<<"c", "l", "i", "_", "c", "o", "n", "f", "i", "g">>, "config_local_dir">>,
      <<<<"c", "l", "i", "-", "c", "a", "c", "h", "e">>, "cache_dir">>, <<<<"c", "l", "i", "_", "c", "a", "c", "h", "e">>, "cache_dir">> }

\* the arms of match_const_dirs
ConstTable ==
    { <<<<"p", "k", "g">>, PKG_NAME>>, <<<<"p", "k", "g", "_", "n", "a", "m", "e">>, PKG_NAME>>, <<<<"p", "k", "g", "-", "n", "a", "m", "e">>, PKG_NAME>>,
      <<<<"p", "k", "g", "_", "v", "e", "r", "s", "i", "o", "n">>, PKG_VERSION>>, <<<<"p", "k", "g", "-", "v", "e", "r", "s", "i", "o", "n">>, PKG_VERSION>>,
      <<<<"v", "e", "r">>, PKG_VERSION>>,
      <<<<"a", "r", "c", "h">>, <<"x", "8", "6", "_", "6", "4">>>>, <<<<"a", "r", "c", "h", "i", "t", "e", "c", "t", "u", "r", "e">>, <<"x", "8", "6", "_", "6", "4">>>>,
      <<<<"d", "e", "b", "_", "a", "r", "c", "h">>, <<"a", "m", "d", "6", "4">>>>, <<<<"d", "e", "b", "-", "a", "r", "c", "h">>, <<"a", "m", "d", "6", "4">>>>,
      <<<<"o", "s">>, <<"l", "i", "n", "u", "x">>>>,
      <<<<"f", "a", "m", "i", "l", "y">>, <<"u", "n", "i", "x">>>>,
      <<<<"e", "x", "e", "_", "s", "u", "f", "f", "i", "x">>, <<>> >>,
      <<<<"e", "x", "e", "_", "e", "x", "t", "e", "n", "s", "i", "o", "n">>, <<>> >> }

\* a table's answer for a key: the arm that matches, None when none does
TableGet(table, key) ==
    IF \E e \in table : e[1] = key
    THEN Some((CHOOSE e \in table : e[1] = key)[2])
    ELSE None

\* match_const_dirs: no remix arm, no "empty" arm
match_const_dirs(ident) == TableGet(ConstTable, ident)

\* directories::ProjectDirs::from on Linux: Some when there is a home
\* directory; the project path is the application name
ProjectDirs_from(qual, org, app) ==
    IF IsSome(dirs["home_dir"]) THEN Some([project_path |-> app]) ELSE None

\* the directory getters of ProjectDirs, one per kind
ProjectDir(proj, kind) == <<"/">> \o kind \o <<"/">> \o proj.project_path

\* ProjectDirs::runtime_dir(): an Option, Some when $XDG_RUNTIME_DIR is set
ProjectDirs_runtime_dir(proj) ==
    IF IsSome(dirs["runtime_dir"])
    THEN Some(PathJoin(dirs["runtime_dir"][2], proj.project_path))
    ELSE None

\* the arms of match_proj_dirs that go through set_proj_dir or and_then
ProjDirsTable ==
    { <<<<"c", "a", "c", "h", "e">>, <<"c", "a", "c", "h", "e">>>>,
      <<<<"c", "f", "g">>, <<"c", "o", "n", "f", "i", "g">>>>, <<<<"c", "o", "n", "f", "i", "g">>, <<"c", "o", "n", "f", "i", "g">>>>,
      <<<<"d", "a", "t", "a">>, <<"d", "a", "t", "a">>>>,
      <<<<"l", "o", "c", "a", "l", "-", "d", "a", "t", "a">>, <<"d", "a", "t", "a", "_", "l", "o", "c", "a", "l">>>>, <<<<"l", "o", "c", "a", "l", "_", "d", "a", "t", "a">>, <<"d", "a", "t", "a", "_", "l", "o", "c", "a", "l">>>>,
      <<<<"l", "o", "c", "a", "l", "-", "c", "f", "g">>, <<"c", "o", "n", "f", "i", "g", "_", "l", "o", "c", "a", "l">>>>, <<<<"l", "o", "c", "a", "l", "_", "c", "f", "g">>, <<"c", "o", "n", "f", "i", "g", "_", "l", "o", "c", "a", "l">>>>,
      <<<<"l", "o", "c", "a", "l", "_", "c", "o", "n", "f", "i", "g">>, <<"c", "o", "n", "f", "i", "g", "_", "l", "o", "c", "a", "l">>>>,
      <<<<"p", "r", "e", "f">>, <<"p", "r", "e", "f", "e", "r", "e", "n", "c", "e">>>>, <<<<"p", "r", "e", "f", "e", "r", "e", "n", "c", "e">>, <<"p", "r", "e", "f", "e", "r", "e", "n", "c", "e">>>>,
      <<<<"s", "t", "a", "t", "e">>, <<"s", "t", "a", "t", "e">>>>,
      <<<<"c", "l", "i", "-", "d", "a", "t", "a">>, <<"d", "a", "t", "a", "_", "l", "o", "c", "a", "l">>>>, <<<<"c", "l", "i", "_", "d", "a", "t", "a">>, <<"d", "a", "t", "a", "_", "l", "o", "c", "a", "l">>>>,
      <<<<"c", "l", "i", "-", "c", "f", "g">>, <<"c", "o", "n", "f", "i", "g", "_", "l", "o", "c", "a", "l">>>>, <<<<"c", "l", "i", "_", "c", "f", "g">>, <<"c", "o", "n", "f", "i", "g", "_", "l", "o", "c", "a", "l">>>>,
      <<<<"c", "l", "i", "_", "c", "o", "n", "f", "i", "g">>, <<"c", "o", "n", "f", "i", "g", "_", "l", "o", "c", "a", "l">>>>,
      <<<<"c", "l", "i", "-", "c", "a", "c", "h", "e">>, <<"c", "a", "c", "h", "e">>>>, <<<<"c", "l", "i", "_", "c", "a", "c", "h", "e">>, <<"c", "a", "c", "h", "e">>>> }

---------------------------------------------------------------------------
(* Separator detection and chunking (parser.rs, os_env.rs) *)

\* a faulty variant of get_question_mark_separator: only the half-width
\* question mark is looked for
get_question_mark_separator_half(s) ==
    IF Find(s, HWQM) # 0 THEN HWQM ELSE NoSeparator

\* a faulty variant of get_question_mark_separator: the half-width question
\* mark wins wherever it stands
get_question_mark_separator_any(s) ==
    IF Find(s, HWQM) # 0 THEN HWQM
    ELSE IF Find(s, FWQM) # 0 THEN FWQM
    ELSE NoSeparator

\* EnvPath::get_question_mark_separator
get_question_mark_separator(s) ==
    LET h == Find(s, HWQM)
        f == Find(s, FWQM)
    IN  IF h # 0 /\ f # 0 /\ h < f THEN HWQM
        ELSE IF h # 0 /\ f # 0 /\ f < h THEN FWQM
        ELSE IF h # 0 /\ f = 0 THEN HWQM
        ELSE IF h = 0 /\ f # 0 THEN FWQM
        ELSE NoSeparator

\* a faulty variant of split_n: split at every c, not into CHUNK_NUM pieces
split_n_every(s, c) == TrimAll(Split(s, c))

\* EnvPath::split_n: splitn(CHUNK_NUM, c), every piece trimmed
split_n(s, c) == TrimAll(SplitN2(s, c))

\* EnvPath::get_chunks
get_chunks(s) ==
    LET h == Find(s, HALF_COLON)
        f == Find(s, FULL_COLON)
    IN  IF h # 0 /\ f # 0 /\ h < f THEN split_n(s, HALF_COLON)
        ELSE IF h # 0 /\ f # 0 /\ f < h THEN split_n(s, FULL_COLON)
        ELSE IF h # 0 /\ f = 0 THEN split_n(s, HALF_COLON)
        ELSE IF h = 0 /\ f # 0 THEN split_n(s, FULL_COLON)
        ELSE <<>>

---------------------------------------------------------------------------
(* Project groups (project_dirs.rs) *)

\* the match on parts.len() of get_project_name:
\* <<qualifier, organization, application>>
project_name_parts(parts) ==
    IF Len(parts) = 1 THEN Some(<<parts[1], <<>>, parts[1]>>)
    ELSE IF Len(parts) = 2 THEN Some(<<parts[1], <<>>, parts[2]>>)
    ELSE IF Len(parts) = 3 THEN Some(<<parts[1], parts[2], parts[3]>>)
    ELSE Some(<<parts[1], parts[2], Concat(SubSeq(parts, 3, Len(parts)))>>)

\* EnvPath::get_project_name.  The slice &c0[start + 1..end] panics when the
\* last ')' is before the first '('.
get_project_name(c0) ==
    LET start == Find(c0, "(")
        end == RFind(c0, ")")
    IN  IF start = 0 \/ end = 0 THEN None
        ELSE IF end < start THEN Panic
        ELSE project_name_parts(
                 TrimAll(Split(SubSeq(c0, start + 1, end - 1), ".")))

\* EnvPath::set_proj_name_opt_tuple: the dotted name and the ProjectDirs
set_proj_name_opt_tuple(chunk) ==
    Bind(get_project_name(chunk), LAMBDA n :
        IF ~IsSome(n) THEN n
        ELSE Some([name |-> JoinWith(NonEmpty(n[2]), <<".">>),
                   proj |-> ProjectDirs_from(n[2][1], n[2][2], n[2][3])]))

\* EnvPath::set_proj_path off Android
set_proj_path(name, proj) ==
    IF IsSome(proj) THEN Some(proj[2].project_path) ELSE Some(name)

---------------------------------------------------------------------------
(* Remix expressions and the lookups of the namespaces *)

START_ARR == <<<<"e", "n", "v">>, <<"d", "i", "r">>, <<"c", "o", "n", "s", "t">>, <<"p", "r", "o", "j">>, <<"v", "a", "l">>>>

\* EnvPath::starts_with_remix_expr
starts_with_remix_expr(x) ==
    Bind(SplitN2(x, "*"), LAMBDA parts :
        /\ Len(parts) = 2
        /\ \E i \in 1..Len(START_ARR) : StartsWith(parts[1], START_ARR[i]))

RECURSIVE match_base_dirs(_)
RECURSIVE match_values(_)
RECURSIVE match_proj_dirs(_, _, _)
RECURSIVE handle_remix(_, _)
RECURSIVE parse_remix_from(_, _)

\* the arm "proj" of handle_remix
handle_remix_proj(trimed) ==
    Bind(get_chunks(trimed), LAMBDA c :
        IF Len(c) \in {0, 1} THEN None
        ELSE Bind(set_proj_name_opt_tuple(c[1]), LAMBDA t :
                 IF IsSome(t)
                 THEN match_proj_dirs(c[2], t[2].name, t[2].proj)
                 ELSE t))

\* the match on start of handle_remix, for the text after the '*'
handle_remix_start(start, trimed) ==
    IF start = <<"e", "n", "v">> THEN into_os_env(trimed)
    ELSE IF start = <<"d", "i", "r">> THEN match_base_dirs(trimed)
    ELSE IF start = <<"p", "r", "o", "j">> THEN handle_remix_proj(trimed)
    ELSE IF start = <<"c", "o", "n", "s", "t">> THEN match_const_dirs(trimed)
    ELSE IF start = <<"v", "a", "l">> THEN match_values(trimed)
    ELSE None

\* EnvPath::handle_remix
handle_remix(s, start) ==
    Bind(Trim(TrimStartMatches(s, start)), LAMBDA x :
        IF ~StartsWith(x, <<"*">>) THEN None
        ELSE handle_remix_start(start, Trim(TrimStartMatches(x, <<"*">>))))

\* the find_map of parse_remix_expr from the i-th start on: the first start
\* that x begins with and that handle_remix answers for
parse_remix_from(x, i) ==
    IF i > Len(START_ARR) THEN None
    ELSE IF ~StartsWith(x, START_ARR[i]) THEN parse_remix_from(x, i + 1)
    ELSE Bind(handle_remix(x, START_ARR[i]), LAMBDA r :
             IF r = None THEN parse_remix_from(x, i + 1) ELSE r)

\* EnvPath::parse_remix_expr
parse_remix_expr(x) == parse_remix_from(x, 1)

\* EnvPath::match_os_env
match_os_env(ident) ==
    IF starts_with_remix_expr(ident) THEN parse_remix_expr(ident)
    ELSE into_os_env(ident)

\* EnvPath::match_base_dirs (unix, not Android, without the rand feature)
match_base_dirs(ident) ==
    Bind(TableGet(BaseDirsTable, ident), LAMBDA arm :
        IF IsSome(arm) THEN set_dir(arm[2])
        ELSE IF ident \in {<<"b", "i", "n">>, <<"e", "x", "e">>, <<"e", "x", "e", "c", "u", "t", "a", "b", "l", "e">>} THEN set_bin_dir
        ELSE IF ident \in {<<"p", "a", "t", "h">>, <<"f", "i", "r", "s", "t", "-", "p", "a", "t", "h">>, <<"f", "i", "r", "s", "t", "_", "p", "a", "t", "h">>}
        THEN set_double_ended_path("first")
        ELSE IF ident \in {<<"l", "a", "s", "t", "_", "p", "a", "t", "h">>, <<"l", "a", "s", "t", "-", "p", "a", "t", "h">>}
        THEN set_double_ended_path("last")
        ELSE IF ident \in {<<"f", "o", "n", "t">>, <<"t", "y", "p", "e", "f", "a", "c", "e">>} THEN set_font_dir
        ELSE IF ident = <<"t", "m", "p">> THEN Some(get_tmp_dir)
        ELSE IF ident \in {<<"v", "a", "r", "-", "t", "m", "p">>, <<"v", "a", "r", "_", "t", "m", "p">>}
        THEN Some(PathJoin(<<"/", "v", "a", "r", "/", "t", "m", "p">>, PKG_NAME))
        ELSE IF ident \in {<<"t", "e", "m", "p">>, <<"t", "e", "m", "p", "o", "r", "a", "r", "y">>} THEN Some(temp_dir)
        ELSE IF ident = <<"e", "m", "p", "t", "y">> THEN Some(<<>>)
        ELSE IF starts_with_remix_expr(ident) THEN parse_remix_expr(ident)
        ELSE None)

\* EnvPath::match_values (without the rand feature)
match_values(ident) ==
    IF ident = <<"e", "m", "p", "t", "y">> THEN Some(<<>>)
    ELSE IF starts_with_remix_expr(ident) THEN parse_remix_expr(ident)
    ELSE None

\* EnvPath::match_proj_dirs (unix, not Android)
match_proj_dirs(ident, name, proj) ==
    IF ident = <<"p", "a", "t", "h">> THEN set_proj_path(name, proj)
    ELSE Bind(TableGet(ProjDirsTable, ident), LAMBDA arm :
             IF IsSome(arm)
             THEN IF IsSome(proj)
                  THEN Some(ProjectDir(proj[2], arm[2]))
                  ELSE None
             ELSE IF ident = <<"r", "u", "n", "t", "i", "m", "e">>
             THEN IF IsSome(proj) THEN ProjectDirs_runtime_dir(proj[2])
                  ELSE None
             ELSE IF ident = <<"e", "m", "p", "t", "y">> THEN Some(<<>>)
             ELSE IF starts_with_remix_expr(ident)
             THEN parse_remix_expr(ident)
             ELSE None)

\* the lookup function f that a handler passes to parse_dir_rules
Lookup(ns, x) ==
    IF ns = "env" THEN match_os_env(x)
    ELSE IF ns = "dir" THEN match_base_dirs(x)
    ELSE IF ns = "const" THEN match_const_dirs(x)
    ELSE match_values(x)

---------------------------------------------------------------------------
(* The fallback chains.  A resolver answers with a record: val, the       *)
(* OsCow it returns; calls, the alternatives it evaluated in order (idx:   *)
(* the position of the segment in the split chain, arg: the text looked   *)
(* up, group: the chunk the project group was parsed from, val: the       *)
(* answer); checks: the values whose existence on disk it asked for.      *)

Call(i, x, g, v) == [idx |-> i, arg |-> x, group |-> g, val |-> v]

Answer(v, calls, checks) == [val |-> v, calls |-> calls, checks |-> checks]

---------------------------------------------------------------------------
(* Faulty variants of the fold of parse_dir_rules.  Each departs from the  *)
(* code in one arm; the properties of the chains are shown to tell the     *)
(* code from them.                                                         *)

\* one more alternative evaluated and logged, as the fold does it
LoggedCall(ns, i, x, calls) ==
    Bind(Lookup(ns, x), LAMBDA r :
        [val |-> r, calls |-> Append(calls, Call(i, x, <<>>, r))])

\* arm (Some(p), non-empty x) also asks whether p exists, as "??" does
RECURSIVE dir_rules_fold_exists(_, _, _, _, _, _)
dir_rules_fold_exists(segs, ns, i, acc, calls, checks) ==
    IF i > Len(segs) THEN Answer(acc, calls, checks)
    ELSE IF acc = None /\ segs[i] = <<>>
    THEN dir_rules_fold_exists(segs, ns, i + 1, None, calls, checks)
    ELSE IF acc = None
    THEN Bind(LoggedCall(ns, i, segs[i], calls), LAMBDA l :
             dir_rules_fold_exists(segs, ns, i + 1, l.val, l.calls, checks))
    ELSE IF Exists(acc[2])
    THEN Answer(acc, calls, Append(checks, acc[2]))
    ELSE IF segs[i] = <<>>
    THEN dir_rules_fold_exists(segs, ns, i + 1, None, calls,
                               Append(checks, acc[2]))
    ELSE Bind(LoggedCall(ns, i, segs[i], calls), LAMBDA l :
             dir_rules_fold_exists(segs, ns, i + 1, l.val, l.calls,
                                   Append(checks, acc[2])))

\* arm (Some(p), empty x) breaks with p without asking whether p exists
RECURSIVE dir_rules_fold_present(_, _, _, _, _, _)
dir_rules_fold_present(segs, ns, i, acc, calls, checks) ==
    IF i > Len(segs) THEN Answer(acc, calls, checks)
    ELSE IF acc = None /\ segs[i] = <<>>
    THEN dir_rules_fold_present(segs, ns, i + 1, None, calls, checks)
    ELSE IF acc = None
    THEN Bind(LoggedCall(ns, i, segs[i], calls), LAMBDA l :
             dir_rules_fold_present(segs, ns, i + 1, l.val, l.calls, checks))
    ELSE Answer(acc, calls, checks)

\* f(x) is called before the match, so also in the arm that breaks
RECURSIVE dir_rules_fold_eager(_, _, _, _, _, _)
dir_rules_fold_eager(segs, ns, i, acc, calls, checks) ==
    IF i > Len(segs) THEN Answer(acc, calls, checks)
    ELSE IF acc = None /\ segs[i] = <<>>
    THEN dir_rules_fold_eager(segs, ns, i + 1, None, calls, checks)
    ELSE IF acc = None
    THEN Bind(LoggedCall(ns, i, segs[i], calls), LAMBDA l :
             dir_rules_fold_eager(segs, ns, i + 1, l.val, l.calls, checks))
    ELSE IF segs[i] # <<>>
    THEN Answer(acc, LoggedCall(ns, i, segs[i], calls).calls, checks)
    ELSE IF Exists(acc[2])
    THEN Answer(acc, calls, Append(checks, acc[2]))
    ELSE dir_rules_fold_eager(segs, ns, i + 1, None, calls,
                              Append(checks, acc[2]))

\* the try_fold of parse_dir_rules from segment i on
RECURSIVE dir_rules_fold(_, _, _, _, _, _)
dir_rules_fold(segs, ns, i, acc, calls, checks) ==
    IF i > Len(segs) THEN Answer(acc, calls, checks)
    ELSE IF acc = None /\ segs[i] = <<>>
    THEN dir_rules_fold(segs, ns, i + 1, None, calls, checks)
    ELSE IF acc = None
    THEN Bind(Lookup(ns, segs[i]), LAMBDA r :
             IF r = Panic
             THEN Answer(Panic, Append(calls, Call(i, segs[i], <<>>, r)),
                         checks)
             ELSE dir_rules_fold(segs, ns, i + 1, r,
                                 Append(calls, Call(i, segs[i], <<>>, r)),
                                 checks))
    ELSE IF segs[i] # <<>> THEN Answer(acc, calls, checks)
    ELSE IF Exists(acc[2])
    THEN Answer(acc, calls, Append(checks, acc[2]))
    ELSE dir_rules_fold(segs, ns, i + 1, None, calls,
                        Append(checks, acc[2]))

\* EnvPath::parse_dir_rules
parse_dir_rules(s, ns, separator) ==
    dir_rules_fold(TrimAll(SplitTerminator(s, separator)), ns, 1, None,
                   <<>>, <<>>)

\* a chain without a question mark: one lookup of the whole text
Direct(x, g, v) == Answer(v, <<Call(1, x, g, v)>>, <<>>)

\* EnvPath::handle_envs
handle_envs(ident) ==
    Bind(get_question_mark_separator(ident), LAMBDA sep :
        IF sep = NoSeparator THEN Direct(ident, <<>>, into_os_env(ident))
        ELSE parse_dir_rules(ident, "env", sep))

\* EnvPath::handle_dirs
handle_dirs(ident) ==
    Bind(get_question_mark_separator(ident), LAMBDA sep :
        IF sep = NoSeparator THEN Direct(ident, <<>>, match_base_dirs(ident))
        ELSE parse_dir_rules(ident, "dir", sep))

\* EnvPath::handle_const_dirs
handle_const_dirs(ident) ==
    Bind(get_question_mark_separator(ident), LAMBDA sep :
        IF sep = NoSeparator
        THEN Direct(ident, <<>>, match_const_dirs(ident))
        ELSE parse_dir_rules(ident, "const", sep))

\* EnvPath::handle_values
handle_values(ident) ==
    Bind(get_question_mark_separator(ident), LAMBDA sep :
        IF sep = NoSeparator THEN Direct(ident, <<>>, match_values(ident))
        ELSE parse_dir_rules(ident, "val", sep))

\* x.rsplit([FULL_COLON, HALF_COLON]).map(trim).next(): the text after the
\* last colon of either width
LastColonPiece(x) ==
    LET h == RFind(x, HALF_COLON)
        f == RFind(x, FULL_COLON)
    IN  Trim(SubSeq(x, (IF h > f THEN h ELSE f) + 1, Len(x)))

\* a faulty variant of GroupChunk: the group of the outer tag, always
GroupChunk_outer(first, u, x, last_chunk) == first

\* the chunk the (None, false) arm of parse_proj_dir_rules parses the group
\* from; u is the 0-based position of segment x
GroupChunk(first, u, x, last_chunk) ==
    IF u = 0 /\ Find(x, "(") = 0 THEN first
    ELSE IF Find(x, "(") # 0 THEN x
    ELSE last_chunk

\* a group that does not parse is passed over and the fold goes on to the
\* next alternative
RECURSIVE proj_rules_fold_skipping(_, _, _, _, _, _, _)
proj_rules_fold_skipping(first, segs, i, acc, last_chunk, calls, checks) ==
    IF i > Len(segs) THEN Answer(acc, calls, checks)
    ELSE IF acc = None /\ segs[i] = <<>>
    THEN proj_rules_fold_skipping(first, segs, i + 1, None, last_chunk, calls,
                                  checks)
    ELSE IF acc = None
    THEN Bind(GroupChunk(first, i - 1, segs[i], last_chunk), LAMBDA c0 :
         Bind(set_proj_name_opt_tuple(c0), LAMBDA t :
             IF ~IsSome(t)
             THEN proj_rules_fold_skipping(first, segs, i + 1, None,
                      last_chunk, Append(calls, Call(i, segs[i], c0, t)),
                      checks)
             ELSE Bind(match_proj_dirs(LastColonPiece(segs[i]), t[2].name,
                                       t[2].proj), LAMBDA r :
                 IF r = Panic
                 THEN Answer(Panic, Append(calls, Call(i, segs[i], c0, r)),
                             checks)
                 ELSE proj_rules_fold_skipping(first, segs, i + 1, r, c0,
                          Append(calls, Call(i, segs[i], c0, r)), checks))))
    ELSE IF segs[i] # <<>> THEN Answer(acc, calls, checks)
    ELSE IF Exists(acc[2])
    THEN Answer(acc, calls, Append(checks, acc[2]))
    ELSE proj_rules_fold_skipping(first, segs, i + 1, None, last_chunk, calls,
                                  Append(checks, acc[2]))

\* the try_fold of parse_proj_dir_rules from segment i on
RECURSIVE proj_rules_fold(_, _, _, _, _, _, _)
proj_rules_fold(first, segs, i, acc, last_chunk, calls, checks) ==
    IF i > Len(segs) THEN Answer(acc, calls, checks)
    ELSE IF acc = None /\ segs[i] = <<>>
    THEN proj_rules_fold(first, segs, i + 1, None, last_chunk, calls, checks)
    ELSE IF acc = None
    THEN Bind(GroupChunk(first, i - 1, segs[i], last_chunk), LAMBDA c0 :
         Bind(set_proj_name_opt_tuple(c0), LAMBDA t :
             IF ~IsSome(t)
             THEN Answer(t, Append(calls, Call(i, segs[i], c0, t)), checks)
             ELSE Bind(match_proj_dirs(LastColonPiece(segs[i]), t[2].name,
                                       t[2].proj), LAMBDA r :
                 IF r = Panic
                 THEN Answer(Panic, Append(calls, Call(i, segs[i], c0, r)),
                             checks)
                 ELSE proj_rules_fold(first, segs, i + 1, r, c0,
                                      Append(calls, Call(i, segs[i], c0, r)),
                                      checks))))
    ELSE IF segs[i] # <<>> THEN Answer(acc, calls, checks)
    ELSE IF Exists(acc[2])
    THEN Answer(acc, calls, Append(checks, acc[2]))
    ELSE proj_rules_fold(first, segs, i + 1, None, last_chunk, calls,
                         Append(checks, acc[2]))

\* EnvPath::parse_proj_dir_rules
parse_proj_dir_rules(first, remain, separator) ==
    proj_rules_fold(first, TrimAll(SplitTerminator(remain, separator)), 1,
                    None, <<>>, <<>>, <<>>)

\* the arm without a separator of handle_project_dirs
project_dir_direct(first_chunk, remain) ==
    Bind(set_proj_name_opt_tuple(first_chunk), LAMBDA t :
        IF ~IsSome(t) THEN Direct(remain, first_chunk, t)
        ELSE Direct(remain, first_chunk,
                    match_proj_dirs(remain, t[2].name, t[2].proj)))

\* EnvPath::handle_project_dirs
handle_project_dirs(first_chunk, remain) ==
    Bind(get_question_mark_separator(remain), LAMBDA sep :
        IF sep = NoSeparator THEN project_dir_direct(first_chunk, remain)
        ELSE parse_proj_dir_rules(first_chunk, remain, sep))

---------------------------------------------------------------------------
(* EnvPath::de (parser.rs) *)

\* a faulty variant of or_default: an empty component for a value that is None
or_default_empty(val, s) == IF val = None THEN Some(<<>>) ELSE val

\* a faulty variant of or_default: the trimmed string that get_chunks was
\* given stands in, not the raw string
or_default_trimmed(val, s) == IF val = None THEN Some(Trim(s)) ELSE val

\* or_default: the raw string s stands in for a value that is None
or_default(val, s) == IF val = None THEN Some(s) ELSE val

\* the casing buffer of the "$env" arm
Casing(x) ==
    IF Contains(x, "*") THEN x ELSE ReplaceDash(ToAsciiUppercase(x))

\* what de() found for one element: the namespace arm taken, the two chunks,
\* the resolver's answer, out, the value joined onto the path, and casing,
\* the casing buffer as the element leaves it
Element(ns, chunks, ans, s, casing) ==
    [ns |-> ns, chunks |-> chunks, val |-> ans.val, calls |-> ans.calls,
     checks |-> ans.checks, out |-> or_default(ans.val, s),
     casing |-> casing]

\* a faulty variant of de_chunks: the "$env" arm appends the chunk to the
\* casing buffer and does not overwrite it
de_chunks_appending(chunks, s, casing) ==
    IF chunks = <<>>
    THEN Element("literal", chunks, Answer(None, <<>>, <<>>), s, casing)
    ELSE IF chunks[1] = <<"$", "e", "n", "v">>
    THEN Bind(casing \o Casing(chunks[2]), LAMBDA c :
             Element("env", chunks, handle_envs(c), s, c))
    ELSE IF chunks[1] = <<"$", "c", "o", "n", "s", "t">>
    THEN Element("const", chunks, handle_const_dirs(chunks[2]), s, casing)
    ELSE IF chunks[1] = <<"$", "v", "a", "l">>
    THEN Element("val", chunks, handle_values(chunks[2]), s, casing)
    ELSE IF chunks[1] = <<"$", "d", "i", "r">>
    THEN Element("dir", chunks, handle_dirs(chunks[2]), s, casing)
    ELSE IF StartsWith(chunks[1], <<"$", "p", "r", "o", "j">>)
    THEN Element("proj", chunks,
                 handle_project_dirs(chunks[1], chunks[2]), s, casing)
    ELSE Element("literal", chunks, Answer(None, <<>>, <<>>), s, casing)

\* the match on the first chunk in the fold closure of de(); casing is the
\* buffer that de() declares before the fold, as the element finds it
de_chunks(chunks, s, casing) ==
    IF chunks = <<>>
    THEN Element("literal", chunks, Answer(None, <<>>, <<>>), s, casing)
    ELSE IF chunks[1] = <<"$", "e", "n", "v">>
    THEN Bind(Casing(chunks[2]), LAMBDA c :
             Element("env", chunks, handle_envs(c), s, c))
    ELSE IF chunks[1] = <<"$", "c", "o", "n", "s", "t">>
    THEN Element("const", chunks, handle_const_dirs(chunks[2]), s, casing)
    ELSE IF chunks[1] = <<"$", "v", "a", "l">>
    THEN Element("val", chunks, handle_values(chunks[2]), s, casing)
    ELSE IF chunks[1] = <<"$", "d", "i", "r">>
    THEN Element("dir", chunks, handle_dirs(chunks[2]), s, casing)
    ELSE IF StartsWith(chunks[1], <<"$", "p", "r", "o", "j">>)
    THEN Element("proj", chunks,
                 handle_project_dirs(chunks[1], chunks[2]), s, casing)
    ELSE Element("literal", chunks, Answer(None, <<>>, <<>>), s, casing)

\* the body of the fold closure of de() for the raw string s
de_element(s, casing) == de_chunks(get_chunks(Trim(s)), s, casing)

\* the fold of de() from element i on; a panic ends it
RECURSIVE de_fold(_, _, _, _, _)
de_fold(r, i, acc, tr, casing) ==
    IF i > Len(r) THEN [path |-> acc, trace |-> tr, panic |-> FALSE]
    ELSE IF acc = None THEN de_fold(r, i + 1, None, tr, casing)
    ELSE Bind(de_element(r[i], casing), LAMBDA e :
             IF e.out = Panic
             THEN [path |-> None, trace |-> Append(tr, e), panic |-> TRUE]
             ELSE de_fold(r, i + 1,
                          IF IsSome(e.out)
                          THEN Some(PathJoin(acc[2], e.out[2]))
                          ELSE None,
                          Append(tr, e), e.casing))

\* EnvPath::de: the path and the trace of the fold
de(r) ==
    IF r = <<>> THEN [path |-> None, trace |-> <<>>, panic |-> FALSE]
    ELSE de_fold(r, 1, Some(<<>>), <<>>, <<>>)

---------------------------------------------------------------------------
(* The inputs: raw sequences, environments and filesystems *)

\* the most alternatives a generated chain has
MaxAlts == 2
\* the most leading empty pairs (a chain that starts with "??")
MaxLead == 1

Widths == {"half", "full"}
Colon(w) == IF w = "half" THEN <<HALF_COLON>> ELSE <<FULL_COLON>>
QMark(w) == IF w = "half" THEN <<HWQM>> ELSE <<FWQM>>
\* the operators "?" and "??"
Operators(w) == {QMark(w), QMark(w) \o QMark(w)}

\* the alternatives of the generated chains, per namespace
Alternatives(ns, w) ==
    IF ns = "env" THEN {<<"h", "o", "m", "e">>, <<"m", "y", "-", "v">>, <<"e", "n", "v", " ", "*", " ", "h", "o", "m", "e">>, <<"c", "o", "n", "s", "t", " ", "*", " ", "o", "s">>}
    ELSE IF ns = "dir" THEN {<<"h", "o", "m", "e">>, <<"r", "u", "n", "t", "i", "m", "e">>, <<"e", "n", "v", " ", "*", " ", "h", "o", "m", "e">>}
    ELSE IF ns = "const" THEN {<<"o", "s">>, <<"z", "z">>, <<"e", "n", "v", " ", "*", " ", "h", "o", "m", "e">>}
    ELSE IF ns = "val"
    THEN {<<"e", "m", "p", "t", "y">>, <<"z", "z">>, <<"e", "n", "v", " ", "*", " ", "h", "o", "m", "e">>,
          <<"p", "r", "o", "j", " ", "*", " ", "(", "c", ".", "d", ".", "e", ")">> \o Colon(w) \o <<" ", "c", "f", "g">>}
    ELSE {<<"d", "a", "t", "a">>, <<"r", "u", "n", "t", "i", "m", "e">>, <<"(", "c", ".", "d", ".", "e", ")">> \o Colon(w) \o <<" ", "c", "f", "g">>,
          <<"(", "f", ".", "g", ")", "FC", " ", "r", "u", "n", "t", "i", "m", "e">>, <<"e", "n", "v", " ", "*", " ", "h", "o", "m", "e">>}

\* the chains of exactly n alternatives
RECURSIVE ChainsOf(_, _, _)
ChainsOf(ns, w, n) ==
    IF n = 1 THEN Alternatives(ns, w)
    ELSE { c \o <<" ">> \o o \o <<" ">> \o a :
             c \in ChainsOf(ns, w, n - 1), o \in Operators(w),
             a \in Alternatives(ns, w) }

\* n leading "??"
RECURSIVE Lead(_, _)
Lead(w, n) ==
    IF n = 0 THEN <<>> ELSE QMark(w) \o QMark(w) \o <<" ">> \o Lead(w, n - 1)

\* some longer chains: a value that is skipped, and groups that change
LongChains(ns, w) ==
    IF ns = "env"
    THEN {<<"m", "y", "-", "v", " ">> \o QMark(w) \o QMark(w) \o <<" ", "z", "z", " ">> \o QMark(w) \o <<" ", "h", "o", "m", "e">>}
    ELSE IF ns = "dir"
    THEN {<<"h", "o", "m", "e", " ">> \o QMark(w) \o QMark(w) \o <<" ", "r", "u", "n", "t", "i", "m", "e", " ">> \o QMark(w)
            \o <<" ", "c", "a", "c", "h", "e">>}
    ELSE IF ns = "proj"
    THEN {<<"(", "f", ".", "g", ")", ":", " ", "r", "u", "n", "t", "i", "m", "e", " ">> \o QMark(w) \o <<" ", "(", "c", ".", "d", ".", "e", ")", ":", " ", "r", "u", "n", "t", "i", "m", "e", " ">> \o QMark(w)
            \o <<" ", "d", "a", "t", "a">>,
          <<"r", "u", "n", "t", "i", "m", "e", " ">> \o QMark(w) \o <<" ", "(", "f", ".", "g", ")", ":", " ", "r", "u", "n", "t", "i", "m", "e", " ">> \o QMark(w)
            \o QMark(w) \o <<" ", "c", "f", "g">>}
    ELSE {}

\* groups of one part and of more than three parts
GroupChains(ns, w) ==
    IF ns = "proj"
    THEN {<<"(", "x", ")">> \o Colon(w) \o <<" ", "p", "a", "t", "h", " ">> \o QMark(w),
          <<"(", " ", "p", " ", ".", " ", "q", ".", "r", ".", "s", " ", ")">> \o Colon(w) \o <<" ", "p", "a", "t", "h", " ">> \o QMark(w)}
    ELSE {}

\* the `$dir` names that the table of the crate's documentation pairs
AliasChains(ns) ==
    IF ns = "dir"
    THEN {<<"d", "o", "c">>, <<"d", "o", "c", "u", "m", "e", "n", "t">>, <<"d", "l">>, <<"d", "o", "w", "n", "l", "o", "a", "d">>, <<"p", "i", "c">>, <<"p", "i", "c", "t", "u", "r", "e">>,
          <<"m", "u", "s", "i", "c">>, <<"a", "u", "d", "i", "o">>, <<"l", "o", "c", "a", "l", "-", "d", "a", "t", "a">>, <<"l", "o", "c", "a", "l", "_", "d", "a", "t", "a">>}
    ELSE {}

\* chains that mix the two question marks
MixedChains(ns) ==
    IF ns = "env"
    THEN {<<"z", "z", " ", "FQ", " ", "h", "o", "m", "e", " ", "?", " ", "m", "y", "-", "v">>, <<"z", "z", " ", "?", " ", "h", "o", "m", "e", " ", "FQ", " ", "m", "y", "-", "v">>}
    ELSE IF ns = "dir" THEN {<<"r", "u", "n", "t", "i", "m", "e", " ", "FQ", " ", "h", "o", "m", "e", " ", "?", " ", "c", "a", "c", "h", "e">>}
    ELSE IF ns = "proj" THEN {<<"r", "u", "n", "t", "i", "m", "e", " ", "?", " ", "d", "a", "t", "a", " ", "FQ", " ", "c", "f", "g">>}
    ELSE {}

\* the chains: up to MaxAlts alternatives, the one-alternative chains with
\* leading "??" and a dangling operator, and the longer ones
Chains(ns, w) ==
    UNION { ChainsOf(ns, w, n) : n \in 1..MaxAlts }
    \cup LongChains(ns, w)
    \cup MixedChains(ns)
    \cup AliasChains(ns)
    \cup GroupChains(ns, w)
    \cup { Lead(w, k) \o a \o t :
             k \in 0..MaxLead, a \in Alternatives(ns, w),
             t \in {<<>>} \cup { <<" ">> \o o : o \in Operators(w) } }

Tags(ns) ==
    IF ns = "env" THEN {<<"$", "e", "n", "v">>}
    ELSE IF ns = "dir" THEN {<<"$", "d", "i", "r">>}
    ELSE IF ns = "const" THEN {<<"$", "c", "o", "n", "s", "t">>}
    ELSE IF ns = "val" THEN {<<"$", "v", "a", "l">>}
    ELSE {<<"$", "p", "r", "o", "j", "(", "a", ".", "b", ")">>, <<"$", "p", "r", "o", "j">>, <<"$", "p", "r", "o", "j", " ", ")", "(">>}

Namespaces == {"env", "dir", "const", "val", "proj"}

ExpressionsOf(ns, w) ==
    { t \o <<" ">> \o Colon(w) \o <<" ">> \o c :
        t \in Tags(ns), c \in Chains(ns, w) }

Expressions ==
    UNION { ExpressionsOf(nw[1], nw[2]) : nw \in Namespaces \X Widths }

Literals ==
    {<<"a", "p", "p">>, <<"/", "o", "p", "t">>, <<"$", "h", "o", "m", "e">>, <<" ", "a", ":", "b", " ">>, <<"$", "e", "n", "v", "y", ":", " ", "h", "o", "m", "e">>, <<"c", "?", "d", " ", "?", "?", " ", "e", ":", "f", ":", " ", "g", " ">>}

\* raw sequences of several expressions
Siblings ==
    { <<<<"$", "e", "n", "v", ":", " ", "h", "o", "m", "e">>, <<"$", "e", "n", "v", ":", " ", "m", "y", "-", "v">>>>,
      <<<<"$", "e", "n", "v", ":", " ", "e", "n", "v", " ", "*", " ", "h", "o", "m", "e", " ", "?", " ", "z", "z">>, <<"$", "e", "n", "v", ":", " ", "m", "y", "-", "v">>>>,
      <<<<"$", "e", "n", "v", ":", " ", "m", "y", "-", "v">>, <<"$", "d", "i", "r", ":", " ", "h", "o", "m", "e">>, <<"$", "e", "n", "v", ":", " ", "h", "o", "m", "e">>>>,
      <<<<"$", "p", "r", "o", "j", "(", "a", ".", "b", ")", ":", " ", "d", "a", "t", "a">>, <<"$", "p", "r", "o", "j", ":", " ", "c", "f", "g">>>>,
      <<<<"$", "p", "r", "o", "j", ":", " ", "(", "c", ".", "d", ".", "e", ")", ":", " ", "c", "f", "g", " ", "?", " ", "d", "a", "t", "a">>, <<"$", "p", "r", "o", "j", "(", "a", ".", "b", ")", ":", " ", "?", " ", "c", "a", "c", "h", "e">>>> }

\* the raw sequences: one element, alone or after the literal "app", and
\* the sequences of several expressions
RawInputs ==
    {<<>>}
    \cup { <<e>> : e \in Expressions \cup Literals }
    \cup { <<<<"a", "p", "p">>, e>> : e \in Expressions \cup Literals }
    \cup Siblings

HOME == <<"H", "O", "M", "E">>
MY_V == <<"M", "Y", "_", "V">>
home == <<"h", "o", "m", "e">>

\* the environments: $home is set, $HOME and $MY_V may be
Environments ==
    { [n \in ns \cup {home} |->
         IF n = HOME THEN <<"/", "h">> ELSE IF n = MY_V THEN <<"/", "v">> ELSE <<"/", "l">>] :
      ns \in SUBSET {HOME, MY_V} }

\* the answers of dirs on Linux: home_dir is $HOME, and so is nothing else
DirsOf(e) ==
    [f \in DirsFns |->
       IF f = "home_dir" THEN (IF HOME \in DOMAIN e THEN Some(e[HOME]) ELSE None)
       ELSE IF f = "runtime_dir" THEN None
       ELSE Some(<<"/">> \o <<f>>)]

FsCandidates == {<<"/", "h">>, <<"/", "d", "a", "t", "a", "/", "b">>}

---------------------------------------------------------------------------
(* The state machine *)

\* the sequences handed to set_raw()
SetRawInputs == {<<<<"a", "p", "p">>>>, <<<<"$", "e", "n", "v", ":", " ", "h", "o", "m", "e">>, <<"x">>>>}

\* EnvPath::new_raw: every element converted into a String, in order
new_raw(v) == [i \in 1..Len(v) |-> v[i]]

\* Deref for EnvPath: the path, or the empty path when there is none
deref == IF IsSome(path) THEN path[2] ELSE <<>>

\* path.exists() through Deref
exists == Exists(deref)

Init ==
    /\ raw \in RawInputs
    /\ path = None
    /\ op = "from"
    /\ arg = raw
    /\ panicked = FALSE
    /\ trace = <<>>
    /\ env \in Environments
    /\ fs \in SUBSET FsCandidates
    /\ dirs = DirsOf(env)
    /\ doc = None

\* the assignment of the result of de() to the new EnvPath
Resolve(d) ==
    /\ path' = d.path
    /\ trace' = d.trace
    /\ panicked' = d.panic

\* a faulty variant of de(): the raw sequence is moved out of the EnvPath
De_raw_taken ==
    /\ ~panicked
    /\ Resolve(de(raw))
    /\ op' = "de"
    /\ raw' = <<>>
    /\ UNCHANGED <<arg, env, fs, dirs, doc>>

\* EnvPath::de(self)
De ==
    /\ ~panicked
    /\ Resolve(de(raw))
    /\ op' = "de"
    /\ UNCHANGED <<raw, arg, env, fs, dirs, doc>>

\* a faulty variant of set_raw(): the new sequence is resolved at once, as
\* EnvPath::new does
SetRaw_resolving(v) ==
    /\ ~panicked
    /\ raw' = new_raw(v)
    /\ arg' = v
    /\ op' = "set_raw"
    /\ Resolve(de(new_raw(v)))
    /\ UNCHANGED <<env, fs, dirs, doc>>

\* EnvPath::set_raw(&mut self, raw)
SetRaw(v) ==
    /\ ~panicked
    /\ raw' = new_raw(v)
    /\ arg' = v
    /\ op' = "set_raw"
    /\ UNCHANGED <<path, panicked, trace, env, fs, dirs, doc>>

\* a faulty variant of clear_raw(): the resolved path is dropped as well
ClearRaw_resetting ==
    /\ ~panicked
    /\ raw' = <<>>
    /\ path' = None
    /\ op' = "clear_raw"
    /\ UNCHANGED <<arg, panicked, trace, env, fs, dirs, doc>>

\* EnvPath::clear_raw(&mut self)
ClearRaw ==
    /\ ~panicked
    /\ raw' = <<>>
    /\ op' = "clear_raw"
    /\ UNCHANGED <<path, arg, panicked, trace, env, fs, dirs, doc>>

Next ==
    \/ De
    \/ \E v \in SetRawInputs : SetRaw(v)
    \/ ClearRaw

Spec == Init /\ [][Next]_vars

---------------------------------------------------------------------------
(* The constructors, the dereferences and the serialisation *)

\* the sequences handed to the constructors
ApiInputs ==
    { <<>>, <<<<"a", "p", "p">>>>, <<<<"$", "e", "n", "v", ":", " ", "h", "o", "m", "e">>, <<"x">>>>, <<<<"$", "d", "i", "r", ":", " ", "r", "u", "n", "t", "i", "m", "e", " ", "?", "?", " ", "h", "o", "m", "e">>>>,
      <<<<"$", "p", "r", "o", "j", " ", ")", "(", " ", ":", " ", "d", "a", "t", "a">>>> }

InitApi ==
    /\ raw \in ApiInputs
    /\ path = None
    /\ op = "from"
    /\ arg = raw
    /\ panicked = FALSE
    /\ trace = <<>>
    /\ env \in Environments
    /\ fs \in SUBSET FsCandidates
    /\ dirs = DirsOf(env)
    /\ doc = None

\* From<Vec<S>> for EnvPath (and into()): a new EnvPath in place of the old
From(v) ==
    /\ ~panicked
    /\ raw' = new_raw(v)
    /\ path' = None
    /\ arg' = v
    /\ op' = "from"
    /\ trace' = <<>>
    /\ UNCHANGED <<panicked, env, fs, dirs, doc>>

\* FromIterator<S> for EnvPath
FromIter(v) ==
    /\ ~panicked
    /\ raw' = new_raw(v)
    /\ path' = None
    /\ arg' = v
    /\ op' = "from_iter"
    /\ trace' = <<>>
    /\ UNCHANGED <<panicked, env, fs, dirs, doc>>

\* EnvPath::from_str_slice
FromStrSlice(v) ==
    /\ ~panicked
    /\ raw' = new_raw(v)
    /\ path' = None
    /\ arg' = v
    /\ op' = "from_str_slice"
    /\ trace' = <<>>
    /\ UNCHANGED <<panicked, env, fs, dirs, doc>>

\* a faulty variant of new(): the raw sequence is stored and not resolved
New_unresolved(v) ==
    /\ ~panicked
    /\ raw' = new_raw(v)
    /\ path' = None
    /\ arg' = v
    /\ op' = "new"
    /\ trace' = <<>>
    /\ UNCHANGED <<panicked, env, fs, dirs, doc>>

\* EnvPath::new: Self {raw: new_raw(raw), path: None}.de()
New(v) ==
    /\ ~panicked
    /\ raw' = new_raw(v)
    /\ Resolve(de(new_raw(v)))
    /\ arg' = v
    /\ op' = "new"
    /\ UNCHANGED <<env, fs, dirs, doc>>

\* EnvPath::create_from_str_slice: from_str_slice(raw).de()
CreateFromStrSlice(v) ==
    /\ ~panicked
    /\ raw' = new_raw(v)
    /\ Resolve(de(new_raw(v)))
    /\ arg' = v
    /\ op' = "create_from_str_slice"
    /\ UNCHANGED <<env, fs, dirs, doc>>

\* Deref for EnvPath as an operation: the caller reads `deref`
Deref ==
    /\ ~panicked
    /\ op' = "deref"
    /\ UNCHANGED <<raw, path, arg, panicked, trace, env, fs, dirs, doc>>

\* a faulty variant of deref_mut(): an absent path is left absent
DerefMut_absent ==
    /\ ~panicked
    /\ op' = "deref_mut"
    /\ UNCHANGED <<raw, path, arg, panicked, trace, env, fs, dirs, doc>>

\* DerefMut for EnvPath: an absent path becomes Some(PathBuf::new())
DerefMut ==
    /\ ~panicked
    /\ path' = IF IsSome(path) THEN path ELSE Some(<<>>)
    /\ op' = "deref_mut"
    /\ UNCHANGED <<raw, arg, panicked, trace, env, fs, dirs, doc>>

\* Serialize for EnvPath: self.raw is serialized, a list of strings
Serialize ==
    /\ ~panicked
    /\ doc' = Some(raw)
    /\ op' = "serialize"
    /\ UNCHANGED <<raw, path, arg, panicked, trace, env, fs, dirs>>

\* a faulty variant of deserialize(): the list is stored and not resolved
Deserialize_unresolved ==
    /\ ~panicked
    /\ IsSome(doc)
    /\ raw' = doc[2]
    /\ path' = None
    /\ trace' = <<>>
    /\ op' = "deserialize"
    /\ UNCHANGED <<arg, panicked, env, fs, dirs, doc>>

\* Deserialize for EnvPath:
\* EnvPath {raw: Cow(Vec::deserialize(..)?), path: None}.de()
Deserialize ==
    /\ ~panicked
    /\ IsSome(doc)
    /\ raw' = doc[2]
    /\ Resolve(de(doc[2]))
    /\ op' = "deserialize"
    /\ UNCHANGED <<arg, env, fs, dirs, doc>>

NextApi ==
    \/ \E v \in ApiInputs : From(v)
    \/ \E v \in ApiInputs : FromIter(v)
    \/ \E v \in ApiInputs : FromStrSlice(v)
    \/ \E v \in ApiInputs : New(v)
    \/ \E v \in ApiInputs : CreateFromStrSlice(v)
    \/ De
    \/ \E v \in SetRawInputs : SetRaw(v)
    \/ ClearRaw
    \/ Deref
    \/ DerefMut
    \/ Serialize
    \/ Deserialize

SpecApi == InitApi /\ [][NextApi]_vars

---------------------------------------------------------------------------
(* Reading the trace of a de(): the chain of an element, its pieces and    *)
(* the value each alternative stands for.                                  *)

Resolved == op = "de" /\ ~panicked

\* the elements of the last de() that went to a chain resolver
ChainElems == { k \in 1..Len(trace) : trace[k].ns # "literal" }

\* the chain as written, and as the resolver of the element received it
WrittenChain(e) == e.chunks[2]
ChainOf(e) == IF e.ns = "env" THEN Casing(e.chunks[2]) ELSE e.chunks[2]

\* the pieces between the question marks of a chain, trimmed; a chain
\* without a question mark is one piece
PiecesOf(c) ==
    IF get_question_mark_separator(c) = NoSeparator THEN <<Trim(c)>>
    ELSE TrimAll(Split(c, get_question_mark_separator(c)))

Pieces(e) == PiecesOf(ChainOf(e))

\* the chain is `a ? b`
IsAB(e) ==
    /\ get_question_mark_separator(ChainOf(e)) # NoSeparator
    /\ Len(Pieces(e)) = 2
    /\ Pieces(e)[1] # <<>>
    /\ Pieces(e)[2] # <<>>

\* the chain is `a ?? b`
IsADoubleB(e) ==
    /\ Len(Pieces(e)) = 3
    /\ Pieces(e)[1] # <<>>
    /\ Pieces(e)[2] = <<>>
    /\ Pieces(e)[3] # <<>>

\* the chunk that holds the project group of the alternative at position i:
\* the alternative if it embeds a group, else the nearest earlier one that
\* does, else the outer tag
RECURSIVE GroupFor(_, _, _)
GroupFor(first, segs, i) ==
    IF i = 0 THEN first
    ELSE IF Contains(segs[i], "(") THEN segs[i]
    ELSE GroupFor(first, segs, i - 1)

GroupParses(e, i) ==
    e.ns = "proj" =>
        IsSome(set_proj_name_opt_tuple(GroupFor(e.chunks[1], Pieces(e), i)))

\* the directory of key (the text after the last colon of x) in the project
\* whose group chunk g holds
ProjValue(g, x) ==
    LET t == set_proj_name_opt_tuple(g)
    IN  IF ~IsSome(t) THEN t
        ELSE match_proj_dirs(LastColonPiece(x), t[2].name, t[2].proj)

\* lookup(alternative i) of the chain of e
LookupAt(e, i) ==
    IF e.ns = "proj"
    THEN ProjValue(GroupFor(e.chunks[1], Pieces(e), i), Pieces(e)[i])
    ELSE Lookup(e.ns, Pieces(e)[i])

---------------------------------------------------------------------------
(* C1: the operator "?" *)

\* C1 as stated: every chain `a ? b`, in any namespace, resolves to
\* lookup(a) when lookup(a) is present and otherwise to lookup(b).
C1_AsStated ==
    Resolved =>
        \A k \in ChainElems :
            IsAB(trace[k]) =>
                trace[k].val = IF IsSome(LookupAt(trace[k], 1))
                               THEN LookupAt(trace[k], 1)
                               ELSE LookupAt(trace[k], 2)

\* C1 (amended): every chain `a ? b`, in any namespace, resolves to
\* lookup(a) when lookup(a) is present and otherwise to lookup(b), and no
\* existence check is made; except that a `$proj` chain in which the project
\* group of `a` cannot be parsed resolves to no value without evaluating `b`.
C1_SingleQuestionMark ==
    op = "de" =>
        \A k \in ChainElems :
            IsAB(trace[k]) =>
                /\ trace[k].checks = <<>>
                /\ IF IsSome(LookupAt(trace[k], 1))
                   THEN trace[k].val = LookupAt(trace[k], 1)
                   ELSE IF GroupParses(trace[k], 1)
                   THEN trace[k].val = LookupAt(trace[k], 2)
                   ELSE /\ ~IsSome(trace[k].val)
                        /\ \A j \in 1..Len(trace[k].calls) :
                               trace[k].calls[j].idx = 1

\* a `$proj` chain `a ? b` fell back to a present lookup(b) although the
\* value of a, which is absent, would exist nowhere
C1_Witness ==
    /\ op = "de"
    /\ \E k \in ChainElems :
          /\ IsAB(trace[k])
          /\ trace[k].ns = "proj"
          /\ GroupParses(trace[k], 1)
          /\ LookupAt(trace[k], 1) = None
          /\ IsSome(LookupAt(trace[k], 2))
          /\ trace[k].val = LookupAt(trace[k], 2)
          /\ ~Exists(trace[k].val[2])

---------------------------------------------------------------------------
(* C2: the operator "??" *)

\* C2 as stated: every chain `a ?? b` resolves to lookup(a) only if
\* lookup(a) is present and exists on disk, and in every other case to
\* lookup(b) by presence alone.
C2_AsStated ==
    Resolved =>
        \A k \in ChainElems :
            IsADoubleB(trace[k]) =>
                trace[k].val = IF /\ IsSome(LookupAt(trace[k], 1))
                                  /\ Exists(LookupAt(trace[k], 1)[2])
                               THEN LookupAt(trace[k], 1)
                               ELSE LookupAt(trace[k], 3)

\* C2 (amended): every chain `a ?? b` resolves to lookup(a) only if
\* lookup(a) is present and exists on disk, and in every other case to
\* lookup(b) by presence alone (the only existence check made is the one of
\* lookup(a)); except that a `$proj` chain in which the project group of `a`
\* cannot be parsed resolves to no value without evaluating `b`.
C2_DoubleQuestionMark ==
    op = "de" =>
        \A k \in ChainElems :
            IsADoubleB(trace[k]) =>
                IF IsSome(LookupAt(trace[k], 1))
                THEN /\ trace[k].checks = <<LookupAt(trace[k], 1)[2]>>
                     /\ trace[k].val = IF Exists(LookupAt(trace[k], 1)[2])
                                       THEN LookupAt(trace[k], 1)
                                       ELSE LookupAt(trace[k], 3)
                ELSE IF GroupParses(trace[k], 1)
                THEN /\ trace[k].checks = <<>>
                     /\ trace[k].val = LookupAt(trace[k], 3)
                ELSE /\ ~IsSome(trace[k].val)
                     /\ \A j \in 1..Len(trace[k].calls) :
                            trace[k].calls[j].idx = 1

\* a chain `a ?? b` whose lookup(a) is present but not on disk resolved to
\* a lookup(b) that is not on disk either
C2_Witness ==
    /\ op = "de"
    /\ \E k \in ChainElems :
          /\ IsADoubleB(trace[k])
          /\ IsSome(LookupAt(trace[k], 1))
          /\ ~Exists(LookupAt(trace[k], 1)[2])
          /\ IsSome(LookupAt(trace[k], 3))
          /\ ~Exists(LookupAt(trace[k], 3)[2])
          /\ trace[k].val = LookupAt(trace[k], 3)
          /\ LookupAt(trace[k], 3) # LookupAt(trace[k], 1)

---------------------------------------------------------------------------
(* C3: the order of the lookups *)

\* C3: in every chain the alternatives are evaluated strictly left to
\* right, each at most once, and the value of the chain is the value of the
\* last alternative evaluated: none is evaluated after the one whose value
\* becomes the result.
C3_LeftToRightOnce ==
    op = "de" =>
        \A k \in ChainElems :
            /\ \A j \in 1..Len(trace[k].calls) :
                  /\ trace[k].calls[j].idx \in 1..Len(Pieces(trace[k]))
                  /\ trace[k].calls[j].arg =
                         Pieces(trace[k])[trace[k].calls[j].idx]
                  /\ j > 1 =>
                         trace[k].calls[j - 1].idx < trace[k].calls[j].idx
            /\ IsSome(trace[k].val) =>
                  /\ trace[k].calls # <<>>
                  /\ trace[k].calls[Len(trace[k].calls)].val = trace[k].val

\* a chain took the value of its first alternative and left a later,
\* non-empty alternative unevaluated
C3_Witness ==
    /\ op = "de"
    /\ \E k \in ChainElems :
          /\ IsSome(trace[k].val)
          /\ Len(trace[k].calls) = 1
          /\ \E i \in 1..Len(Pieces(trace[k])) :
                /\ i > trace[k].calls[1].idx
                /\ Pieces(trace[k])[i] # <<>>

---------------------------------------------------------------------------
(* C4: the literal fallback *)

RecognizedTag(c) ==
    \/ c \in {<<"$", "e", "n", "v">>, <<"$", "c", "o", "n", "s", "t">>, <<"$", "d", "i", "r">>, <<"$", "v", "a", "l">>}
    \/ StartsWith(c, <<"$", "p", "r", "o", "j">>)

\* element k has no recognized tag, or its chain resolved to no value
Unresolved(k) ==
    \/ trace[k].chunks = <<>>
    \/ ~RecognizedTag(trace[k].chunks[1])
    \/ trace[k].val = None

\* the path after the first k elements, from what each contributed
RECURSIVE Joined(_)
Joined(k) ==
    IF k = 0 THEN <<>> ELSE PathJoin(Joined(k - 1), trace[k].out[2])

\* C4: an element whose first chunk is no recognized tag, or whose chain
\* resolves to no value, contributes its raw text, untrimmed, and the path
\* is the join of the contributions in order (of a sequence that has an
\* element).
C4_LiteralFallback ==
    (Resolved /\ raw # <<>>) =>
        /\ Len(trace) = Len(raw)
        /\ \A k \in 1..Len(trace) :
              Unresolved(k) => trace[k].out = Some(raw[k])
        /\ path = Some(Joined(Len(raw)))

\* an expression with a recognized tag resolved to no value and its text
\* was joined onto the path of the element before it
C4_Witness ==
    /\ Resolved
    /\ Len(raw) = 2
    /\ trace[2].ns # "literal"
    /\ trace[2].val = None
    /\ path = Some(raw[1] \o <<"/">> \o raw[2])

---------------------------------------------------------------------------
(* C5: no crash *)

\* C5: the resolution of a malformed expression ends in an absent value or
\* in literal text; no input makes it panic.
C5_NeverPanics == ~panicked

---------------------------------------------------------------------------
(* C6: the folding of `$env` identifiers *)

\* str::to_ascii_uppercase and '-' to '_'
EnvName(a) == ReplaceDash(ToAsciiUppercase(a))

\* C6: in a `$env` chain every alternative without `*` is looked up under
\* its upper-cased name with `-` replaced by `_`, whatever the other
\* alternatives of the chain are.
C6_EnvNameFolded ==
    Resolved =>
        \A k \in ChainElems :
            trace[k].ns = "env" =>
                \A j \in 1..Len(trace[k].calls) :
                    LET a == PiecesOf(WrittenChain(trace[k]))
                                 [trace[k].calls[j].idx]
                    IN  ~Contains(a, "*") =>
                            trace[k].calls[j].val = into_os_env(EnvName(a))

---------------------------------------------------------------------------
(* C7, C8: remix alternatives *)

\* the alternatives that a resolver called its lookup function on
Lookups(e) ==
    { j \in 1..Len(e.calls) :
        e.ns = "proj" => IsSome(set_proj_name_opt_tuple(e.calls[j].group)) }

\* a is `env * X`
IsEnvRemix(a) ==
    /\ StartsWith(a, <<"e", "n", "v">>)
    /\ StartsWith(Trim(SubSeq(a, 4, Len(a))), <<"*">>)

\* the X of `env * X`
EnvRemixName(a) == Trim(Tail(Trim(SubSeq(a, 4, Len(a)))))

\* C7: a remix alternative `env * X` resolves to the value of the
\* environment variable named exactly X.
C7_EnvRemixVerbatim ==
    Resolved =>
        \A k \in ChainElems :
            \A j \in Lookups(trace[k]) :
                IsEnvRemix(trace[k].calls[j].arg) =>
                    trace[k].calls[j].val =
                        into_os_env(EnvRemixName(trace[k].calls[j].arg))

\* C8: a remix segment `<tag> * <identifier>` is dispatched to the lookup
\* of <tag> in the chain of every namespace, as one of several alternatives
\* and as the only alternative.
C8_RemixDispatched ==
    Resolved =>
        \A k \in ChainElems :
            \A j \in Lookups(trace[k]) :
                starts_with_remix_expr(trace[k].calls[j].arg) =>
                    trace[k].calls[j].val =
                        parse_remix_expr(trace[k].calls[j].arg)

---------------------------------------------------------------------------
(* C9, C10: project groups *)

\* C9: a `$proj` chain `(a.b.c): x ? (d.e.f): y` resolves to key x of
\* project (a.b.c) when that is present and otherwise to key y of project
\* (d.e.f), the key being the text after the last colon of either width.
C9_MultiGroup ==
    op = "de" =>
        \A k \in ChainElems :
            ( /\ trace[k].ns = "proj"
              /\ IsAB(trace[k])
              /\ \A i \in 1..2 :
                    /\ Contains(Pieces(trace[k])[i], "(")
                    /\ IsSome(set_proj_name_opt_tuple(Pieces(trace[k])[i])) )
            => trace[k].val =
                   IF IsSome(ProjValue(Pieces(trace[k])[1],
                                       Pieces(trace[k])[1]))
                   THEN ProjValue(Pieces(trace[k])[1], Pieces(trace[k])[1])
                   ELSE ProjValue(Pieces(trace[k])[2], Pieces(trace[k])[2])

\* a chain of two groups resolved to the key of the second group, in a
\* project that is neither the first group's nor the outer tag's
C9_Witness ==
    /\ op = "de"
    /\ \E k \in ChainElems :
          /\ trace[k].ns = "proj"
          /\ IsAB(trace[k])
          /\ Contains(Pieces(trace[k])[1], "(")
          /\ Contains(Pieces(trace[k])[2], "(")
          /\ ProjValue(Pieces(trace[k])[1], Pieces(trace[k])[1]) = None
          /\ IsSome(trace[k].val)
          /\ trace[k].val =
                 ProjValue(Pieces(trace[k])[2], Pieces(trace[k])[2])
          /\ trace[k].val #
                 ProjValue(Pieces(trace[k])[1], Pieces(trace[k])[2])
          /\ trace[k].val # ProjValue(trace[k].chunks[1], Pieces(trace[k])[2])

\* C10: in a `$proj` chain every evaluated alternative without an embedded
\* group is resolved within the group of the nearest earlier alternative
\* that opened one, and within the group of the outer tag if none has, at
\* every position, also after leading empty segments.
C10_GroupInherited ==
    Resolved =>
        \A k \in ChainElems :
            trace[k].ns = "proj" =>
                \A j \in 1..Len(trace[k].calls) :
                    LET c == trace[k].calls[j]
                        g == GroupFor(trace[k].chunks[1], Pieces(trace[k]),
                                      c.idx)
                    IN  ( /\ ~Contains(c.arg, "(")
                          /\ IsSome(set_proj_name_opt_tuple(g)) )
                        => c.val = ProjValue(g, c.arg)

---------------------------------------------------------------------------
(* C12: the empty raw sequence *)

\* C12: de() of an empty raw sequence gives a path that is present and
\* empty, not an absent path.
C12_EmptyPresent ==
    (op = "de" /\ raw = <<>>) => path = Some(<<>>)

---------------------------------------------------------------------------
(* C13: sequences of literal strings *)

\* a string that is not an expression: it does not begin with '$'
IsLiteralText(s) == ~StartsWith(Trim(s), <<"$">>)

\* the first n strings of the raw sequence joined in order, as written
RECURSIVE JoinedRaw(_)
JoinedRaw(n) ==
    IF n = 0 THEN <<>> ELSE PathJoin(JoinedRaw(n - 1), raw[n])

\* C13: de() of a sequence of literal strings (none begins with '$'; colons
\* and question marks may occur in them) gives exactly the path that joins
\* the strings in sequence order, each unchanged and untrimmed.
C13_LiteralRoundTrip ==
    (op = "de" /\ raw # <<>> /\ \A k \in 1..Len(raw) : IsLiteralText(raw[k]))
        => path = Some(JoinedRaw(Len(raw)))

\* two literal strings were joined, the second with a colon, a question
\* mark and blanks at its ends
C13_Witness ==
    /\ op = "de"
    /\ Len(raw) = 2
    /\ \A k \in 1..Len(raw) : IsLiteralText(raw[k])
    /\ Contains(raw[2], HALF_COLON)
    /\ Contains(raw[2], HWQM)
    /\ Trim(raw[2]) # raw[2]
    /\ path = Some(raw[1] \o <<"/">> \o raw[2])

---------------------------------------------------------------------------
(* C14: full-width and half-width separators *)

\* s is written with half-width separators only
HalfWidthOnly(s) == ~Contains(s, FULL_COLON) /\ ~Contains(s, FWQM)

\* s with every ':' and '?' replaced by its full-width form
ToFullWidth(s) ==
    [i \in 1..Len(s) |->
        IF s[i] = HALF_COLON THEN FULL_COLON
        ELSE IF s[i] = HWQM THEN FWQM
        ELSE s[i]]

\* C14: an expression written with the full-width colon and question mark
\* only resolves to the same value, through the same namespace, as the
\* expression with the same identifiers written with ':' and '?'; in every
\* namespace, in `$proj` chains of several groups and in `proj * (...)`
\* remix segments.
C14_WidthEquivalence ==
    op = "de" =>
        \A k \in ChainElems :
            HalfWidthOnly(raw[k]) =>
                /\ de_element(ToFullWidth(raw[k]), <<>>).ns = trace[k].ns
                /\ de_element(ToFullWidth(raw[k]), <<>>).val = trace[k].val

\* a `$proj` chain of several groups and a `proj * (...)` remix, written
\* with ':' and '?', each resolved to a value after more than one lookup
C14_Witness ==
    /\ op = "de"
    /\ \E k \in ChainElems :
          /\ HalfWidthOnly(raw[k])
          /\ Contains(trace[k].chunks[2], HALF_COLON)
          /\ Contains(trace[k].chunks[2], HWQM)
          /\ Len(trace[k].calls) >= 2
          /\ IsSome(trace[k].val)
          /\ \/ trace[k].ns = "proj"
             \/ /\ trace[k].ns = "val"
                /\ StartsWith(trace[k].calls[Len(trace[k].calls)].arg,
                              <<"p", "r", "o", "j", " ", "*">>)

---------------------------------------------------------------------------
(* C15: the question mark of a chain *)

IsQuestionMark(c) == c = HWQM \/ c = FWQM

\* the question mark, of either width, that stands first in chain c
FirstMark(c) ==
    IF \A i \in 1..Len(c) : ~IsQuestionMark(c[i]) THEN NoSeparator
    ELSE c[CHOOSE i \in 1..Len(c) :
               /\ IsQuestionMark(c[i])
               /\ \A j \in 1..(i - 1) : ~IsQuestionMark(c[j])]

\* the other question mark
OtherMark(m) == IF m = HWQM THEN FWQM ELSE HWQM

\* C15: the separator of a chain is the question mark, half-width or
\* full-width, that stands first in it, and none when it has no question
\* mark: without one the chain is looked up whole, and with one every
\* alternative looked up is a piece of the chain split at that character
\* alone, so the other question mark never separates and stays inside the
\* alternative it stands in.
C15_FirstMarkSeparates ==
    op = "de" =>
        \A k \in ChainElems :
            \A j \in 1..Len(trace[k].calls) :
                IF FirstMark(ChainOf(trace[k])) = NoSeparator
                THEN /\ Len(trace[k].calls) = 1
                     /\ trace[k].calls[j].arg = ChainOf(trace[k])
                ELSE /\ trace[k].calls[j].idx
                          <= Len(Split(ChainOf(trace[k]),
                                       FirstMark(ChainOf(trace[k]))))
                     /\ trace[k].calls[j].arg
                          = Trim(Split(ChainOf(trace[k]),
                                       FirstMark(ChainOf(trace[k])))
                                     [trace[k].calls[j].idx])

\* a chain whose first question mark is full-width was split at it, and an
\* alternative it looked up holds the half-width one
C15_Witness ==
    /\ op = "de"
    /\ \E k \in ChainElems :
          /\ FirstMark(ChainOf(trace[k])) = FWQM
          /\ Len(trace[k].calls) = 2
          /\ ~Contains(trace[k].calls[1].arg, HWQM)
          /\ Contains(trace[k].calls[2].arg, HWQM)

---------------------------------------------------------------------------
(* C16: the chunks of a raw string *)

IsColon(c) == c = HALF_COLON \/ c = FULL_COLON

\* the position of the first colon, of either width, in s; 0 without one
FirstColon(s) ==
    IF \A i \in 1..Len(s) : ~IsColon(s[i]) THEN 0
    ELSE CHOOSE i \in 1..Len(s) :
             /\ IsColon(s[i])
             /\ \A j \in 1..(i - 1) : ~IsColon(s[j])

\* the two sides of position i of s
Before(s, i) == SubSeq(s, 1, i - 1)
After(s, i) == SubSeq(s, i + 1, Len(s))

\* C16: get_chunks gives no chunk for a string without a colon of either
\* width, and otherwise exactly two chunks: the text before the first colon
\* of either width and all the text after it, later colons included, each
\* trimmed.  It never gives one chunk, and de() reads the second chunk only
\* of an element that has two.
C16_TwoChunks ==
    op = "de" =>
        \A k \in 1..Len(trace) :
            /\ Len(trace[k].chunks) \in {0, 2}
            /\ trace[k].ns # "literal" => Len(trace[k].chunks) = 2
            /\ IF FirstColon(Trim(raw[k])) = 0
               THEN trace[k].chunks = <<>>
               ELSE trace[k].chunks =
                        << Trim(Before(Trim(raw[k]),
                                       FirstColon(Trim(raw[k])))),
                           Trim(After(Trim(raw[k]),
                                      FirstColon(Trim(raw[k])))) >>

\* an element was split at its first colon, a half-width one, and its
\* second chunk keeps a later colon of the other width
C16_Witness ==
    /\ op = "de"
    /\ \E k \in ChainElems :
          /\ Trim(raw[k])[FirstColon(Trim(raw[k]))] = HALF_COLON
          /\ Len(trace[k].chunks) = 2
          /\ Contains(trace[k].chunks[2], FULL_COLON)
          /\ ~Contains(trace[k].chunks[1], HALF_COLON)

---------------------------------------------------------------------------
(* C17: the parts of a project group *)

\* chunk g holds a group: a '(' and, after it, a ')'
HasGroup(g) == Find(g, "(") # 0 /\ RFind(g, ")") > Find(g, "(")

\* the dot-separated parts of the group of g, trimmed
GroupParts(g) ==
    TrimAll(Split(SubSeq(g, Find(g, "(") + 1, RFind(g, ")") - 1), "."))

\* the rest of the parts from the third on, concatenated
RECURSIVE RestOf(_, _)
RestOf(ps, i) == IF i > Len(ps) THEN <<>> ELSE ps[i] \o RestOf(ps, i + 1)

\* <<qualifier, organization, application>> as the parts name them
NamedParts(ps) ==
    IF Len(ps) = 1 THEN << <<>>, <<>>, ps[1] >>
    ELSE IF Len(ps) = 2 THEN << ps[1], <<>>, ps[2] >>
    ELSE << ps[1], ps[2], RestOf(ps, 3) >>

\* C17: a project group of dot-separated, trimmed parts is parsed as: one
\* part p, the application p with an empty qualifier and an empty
\* organization; two parts, qualifier and application with an empty
\* organization; three parts, qualifier, organization and application; more
\* than three, qualifier, organization and the remaining parts concatenated
\* as the application.
C17_GroupParts ==
    op = "de" =>
        \A k \in ChainElems :
            trace[k].ns = "proj" =>
                \A j \in 1..Len(trace[k].calls) :
                    HasGroup(trace[k].calls[j].group) =>
                        get_project_name(trace[k].calls[j].group)
                            = Some(NamedParts(
                                  GroupParts(trace[k].calls[j].group)))

---------------------------------------------------------------------------
(* C18: de() and the raw sequence *)

\* C18: de() leaves the raw sequence as it was: the same strings in the
\* same order, whether or not any element resolved.
C18_DeKeepsRaw == [][op' = "de" => raw' = raw]_vars

\* de() resolved one element and not the other, and both are still in the
\* raw sequence
C18_Witness ==
    /\ op = "de"
    /\ Len(raw) = 2
    /\ Len(trace) = 2
    /\ trace[1].val = None
    /\ IsSome(trace[2].val)
    /\ trace[2].out # Some(raw[2])

---------------------------------------------------------------------------
(* C19: set_raw() and clear_raw() *)

\* C19: set_raw(v) and clear_raw() do not resolve: after set_raw(v) the raw
\* sequence is v, after clear_raw() it is empty, and in both cases the
\* resolved path is what it was before the call.
C19_SettersDoNotResolve ==
    [][/\ op' = "set_raw" => (raw' = arg' /\ path' = path)
       /\ op' = "clear_raw" => (raw' = <<>> /\ path' = path)]_vars

\* after set_raw(v) the path is still the one resolved before the call,
\* which is not the path that v resolves to
C19_Witness ==
    /\ op = "set_raw"
    /\ raw = arg
    /\ IsSome(path)
    /\ IsSome(de(raw).path)
    /\ path # de(raw).path

---------------------------------------------------------------------------
(* C20: clear_raw() and exists() *)

\* C20 as stated: after clear_raw() the raw sequence is empty and exists()
\* is false, whatever the path resolved before the call.
C20_AsStated ==
    op = "clear_raw" => (raw = <<>> /\ ~exists)

\* C20 (amended): after clear_raw() the raw sequence is empty and the
\* EnvPath dereferences to the path it dereferenced to before the call, so
\* exists() answers as before: false only if the path resolved before the
\* call is absent or does not exist on disk.
C20_ClearKeepsExists ==
    [][op' = "clear_raw"
          => (raw' = <<>> /\ deref' = deref /\ exists' = exists)]_vars

\* after clear_raw() the EnvPath still dereferences to a path that exists
C20_Witness ==
    /\ op = "clear_raw"
    /\ raw = <<>>
    /\ IsSome(path)
    /\ exists

---------------------------------------------------------------------------
(* C23: the names and aliases of `$dir` *)

\* the documented table, Linux: name or alias, and the dirs function that
\* provides the directory the table names for it
DocumentedDirs ==
    { <<<<"d", "o", "c">>, "document_dir">>, <<<<"d", "o", "c", "u", "m", "e", "n", "t">>, "document_dir">>,
      <<<<"d", "l">>, "download_dir">>, <<<<"d", "o", "w", "n", "l", "o", "a", "d">>, "download_dir">>,
      <<<<"p", "i", "c">>, "picture_dir">>, <<<<"p", "i", "c", "t", "u", "r", "e">>, "picture_dir">>,
      <<<<"m", "u", "s", "i", "c">>, "audio_dir">>, <<<<"a", "u", "d", "i", "o">>, "audio_dir">>,
      <<<<"l", "o", "c", "a", "l", "-", "d", "a", "t", "a">>, "data_local_dir">>,
      <<<<"l", "o", "c", "a", "l", "_", "d", "a", "t", "a">>, "data_local_dir">> }

\* C23: off Android, every `$dir` name of the documented table and its
\* alias are answered by the same provider, the one the table names:
\* doc/document the documents directory, dl/download the download
\* directory, pic/picture the pictures directory, music/audio the music
\* directory, local-data/local_data the local data directory.
C23_DirAliases ==
    op = "de" =>
        \A k \in ChainElems :
            trace[k].ns = "dir" =>
                \A j \in 1..Len(trace[k].calls) :
                    \A e \in DocumentedDirs :
                        trace[k].calls[j].arg = e[1]
                            => trace[k].calls[j].val = dirs[e[2]]

---------------------------------------------------------------------------
(* C26: a `$proj` group that does not parse *)

\* chunk g has no '(' or no ')'
NoGroup(g) == Find(g, "(") = 0 \/ Find(g, ")") = 0

\* C26: in a `$proj` chain, an alternative evaluated with a group chunk that
\* has no '(' or no ')' (the outer tag, or the alternative that opens a
\* group) ends the chain at once with no value: it is the last alternative
\* evaluated, whatever follows it.
C26_UnparsedGroupStops ==
    op = "de" =>
        \A k \in ChainElems :
            trace[k].ns = "proj" =>
                \A j \in 1..Len(trace[k].calls) :
                    NoGroup(trace[k].calls[j].group) =>
                        /\ j = Len(trace[k].calls)
                        /\ trace[k].val = None

\* the first alternative had no group to use, and the second, never
\* evaluated, embeds a group with which it resolves
C26_Witness ==
    /\ op = "de"
    /\ \E k \in ChainElems :
          /\ trace[k].ns = "proj"
          /\ Len(trace[k].calls) = 1
          /\ NoGroup(trace[k].calls[1].group)
          /\ trace[k].val = None
          /\ Len(Pieces(trace[k])) >= 2
          /\ HasGroup(Pieces(trace[k])[2])
          /\ IsSome(LookupAt(trace[k], 2))

---------------------------------------------------------------------------
(* C25: de() of a sequence that has an element *)

\* every element of the last de() contributed a value
EveryPrefixPresent ==
    /\ Len(trace) = Len(raw)
    /\ \A k \in 1..Len(trace) : IsSome(trace[k].out)

\* C25: after de() of a raw sequence that is not empty the path is present,
\* every element having contributed a value (its own text at least), and
\* the path is absent after de() exactly when the raw sequence is empty.
C25_PathPresent ==
    op = "de" =>
        /\ raw # <<>> => (~panicked /\ IsSome(path) /\ EveryPrefixPresent)
        /\ path = None <=> raw = <<>>

---------------------------------------------------------------------------
(* C24: a chain of any length in `$env`, `$dir`, `$const` and `$val` *)

\* the pieces of chain c between the occurrences of its first question
\* mark, trimmed; a dangling question mark leaves an empty last piece
MarkPieces(c) ==
    IF FirstMark(c) = NoSeparator THEN <<Trim(c)>>
    ELSE TrimAll(Split(c, FirstMark(c)))

\* piece i of ps is followed at once by a second question mark: by `??`
DoubleAfter(ps, i) == i + 2 <= Len(ps) /\ ps[i + 1] = <<>>

\* alternative i of the chain ps qualifies: it is written, its value is
\* present and, before `??`, exists on the filesystem
Qualifies(ns, ps, i) ==
    /\ ps[i] # <<>>
    /\ IsSome(Lookup(ns, ps[i]))
    /\ DoubleAfter(ps, i) => Exists(Lookup(ns, ps[i])[2])

\* the value of the leftmost alternative that qualifies, if any
LeftmostQualifying(ns, ps) ==
    IF \A i \in 1..Len(ps) : ~Qualifies(ns, ps, i) THEN None
    ELSE Lookup(ns, ps[CHOOSE i \in 1..Len(ps) :
                          /\ Qualifies(ns, ps, i)
                          /\ \A j \in 1..(i - 1) : ~Qualifies(ns, ps, j)])

SimpleNamespaces == {"env", "dir", "const", "val"}

\* C24: every chain of `$env`, `$dir`, `$const` and `$val`, of any number
\* of alternatives and any mix of `?` and `??`, resolves to the lookup value
\* of its leftmost alternative that is present and, when `??` follows it,
\* exists; to no value when there is none. Empty pieces give no value.
C24_LeftmostQualifying ==
    Resolved =>
        \A k \in ChainElems :
            trace[k].ns \in SimpleNamespaces =>
                trace[k].val
                    = LeftmostQualifying(trace[k].ns,
                                         MarkPieces(ChainOf(trace[k])))

---------------------------------------------------------------------------
(* C27: a dangling question mark *)

\* chain c without its last character and the blanks before it
DropLast(c) == Trim(SubSeq(c, 1, Len(c) - 1))

\* chain c is `a ?`: one alternative, one question mark, at its end
IsDanglingSingle(c) ==
    /\ Len(c) >= 2
    /\ IsQuestionMark(c[Len(c)])
    /\ DropLast(c) # <<>>
    /\ FirstMark(DropLast(c)) = NoSeparator

\* chain c is `a ??`: one alternative and two question marks of one width
IsDanglingDouble(c) ==
    /\ Len(c) >= 3
    /\ IsQuestionMark(c[Len(c)])
    /\ c[Len(c) - 1] = c[Len(c)]
    /\ DropLast(DropLast(c)) # <<>>
    /\ FirstMark(DropLast(DropLast(c))) = NoSeparator

\* the value of the chain c alone, under the tag of element e
ChainValue(e, c) == de_chunks(<<e.chunks[1], c>>, <<>>, <<>>).val

\* C27: a chain `a ?` resolves exactly as the chain `a`; a chain `a ??`
\* resolves to lookup(a) if that value is present and exists, and to no
\* value otherwise.
C27_DanglingMark ==
    Resolved =>
        \A k \in ChainElems :
            /\ IsDanglingSingle(WrittenChain(trace[k]))
                   => trace[k].val
                          = ChainValue(trace[k],
                                       DropLast(WrittenChain(trace[k])))
            /\ IsDanglingDouble(WrittenChain(trace[k]))
                   => trace[k].val
                          = IF /\ IsSome(LookupAt(trace[k], 1))
                               /\ Exists(LookupAt(trace[k], 1)[2])
                            THEN LookupAt(trace[k], 1)
                            ELSE None

---------------------------------------------------------------------------
(* C28: when the filesystem is asked *)

\* the chain of e has a `??`: an empty piece between two question marks
HasDouble(e) ==
    \E i \in 1..Len(MarkPieces(ChainOf(e))) :
        DoubleAfter(MarkPieces(ChainOf(e)), i)

\* the value of the last alternative looked up, none if none was
LastAnswer(e) ==
    IF e.calls = <<>> THEN None ELSE e.calls[Len(e.calls)].val

\* C28: the filesystem is asked only about a present value that an empty
\* piece follows at once. Every path checked is the value of an alternative
\* looked up, and a chain without `??` makes no check at all: its result is
\* the answer of the last provider called, whatever the filesystem holds.
C28_ChecksOnlyForDouble ==
    Resolved =>
        \A k \in ChainElems :
            /\ \A c \in 1..Len(trace[k].checks) :
                   \E j \in 1..Len(trace[k].calls) :
                       /\ trace[k].calls[j].val = Some(trace[k].checks[c])
                       /\ DoubleAfter(Pieces(trace[k]),
                                      trace[k].calls[j].idx)
            /\ ~HasDouble(trace[k])
                   => /\ trace[k].checks = <<>>
                      /\ trace[k].val = LastAnswer(trace[k])

\* a chain `a ? b` whose first value is present and does not exist resolved
\* to it without a check
C28_Witness ==
    /\ Resolved
    /\ \E k \in ChainElems :
          /\ ~HasDouble(trace[k])
          /\ Len(Pieces(trace[k])) >= 2
          /\ IsSome(trace[k].val)
          /\ ~Exists(trace[k].val[2])
          /\ trace[k].checks = <<>>

---------------------------------------------------------------------------
(* C29: the elements of one de() *)

\* what the casing buffer may hold when an element is resolved alone
Buffers == {<<>>, <<"e", "n", "v", " ", "*", " ", "h", "o", "m", "e", " ", "?", " ", "z", "z">>}

\* C29: in one de(), what an element contributes (its value, the providers
\* it called, the paths it checked, what it joined onto the path) is what
\* the element resolves to alone, whatever the casing buffer held before
\* (the buffer it leaves aside): it depends on its own raw string, not on
\* the elements before it.
C29_ElementsIndependent ==
    op = "de" =>
        \A k \in 1..Len(trace) :
            \A b \in Buffers :
                [de_element(raw[k], b) EXCEPT !.casing = trace[k].casing]
                    = trace[k]

\* two `$env` elements of one sequence resolved, each to its own variable
C29_Witness ==
    /\ Resolved
    /\ Len(trace) >= 2
    /\ trace[1].ns = "env"
    /\ trace[2].ns = "env"
    /\ IsSome(trace[1].val)
    /\ IsSome(trace[2].val)
    /\ trace[1].val # trace[2].val
    /\ trace[1].casing # trace[2].casing

---------------------------------------------------------------------------
(* C21: the constructors *)

StoringConstructors == {"from", "from_iter", "from_str_slice"}
ResolvingConstructors == {"new", "create_from_str_slice"}

\* C21: from() (and into()), from_iter() and from_str_slice() store the
\* sequence they are given as the raw sequence and leave the path absent;
\* new(raw) and create_from_str_slice(raw) give the raw sequence and the
\* path that from(raw).de() gives.
C21_Constructors ==
    /\ op \in StoringConstructors
           => (raw = arg /\ path = None /\ ~panicked)
    /\ op \in ResolvingConstructors
           => /\ raw = arg
              /\ path = de(new_raw(arg)).path
              /\ panicked = de(new_raw(arg)).panic

\* new() resolved an expression of the sequence it was given
C21_Witness ==
    /\ op = "new"
    /\ Len(raw) = 2
    /\ Len(trace) = 2
    /\ IsSome(trace[1].val)
    /\ path = Some(PathJoin(trace[1].val[2], raw[2]))

---------------------------------------------------------------------------
(* C22: serialisation *)

\* C22: serializing writes the raw sequence, a list of strings, and nothing
\* of the resolved path, and changes nothing of the EnvPath; deserializing
\* a list gives the EnvPath whose raw sequence is the list, in order, and
\* whose path is what de() computes for it then.
C22_RawRoundTrip ==
    [][/\ op' = "serialize"
           => (doc' = Some(raw) /\ raw' = raw /\ path' = path)
       /\ op' = "deserialize"
           => /\ raw' = doc[2]
              /\ path' = de(doc[2]).path
              /\ panicked' = de(doc[2]).panic]_vars

\* a serialized raw sequence of two strings was deserialized to an EnvPath
\* with that raw sequence and the path resolved from it
C22_Witness ==
    /\ op = "deserialize"
    /\ doc = Some(raw)
    /\ Len(trace) = 2
    /\ IsSome(trace[1].val)
    /\ path = Some(PathJoin(trace[1].val[2], raw[2]))

---------------------------------------------------------------------------
(* C30: the two dereferences *)

\* C30: reading through an EnvPath whose path is absent gives the empty
\* path, and reading changes nothing; a mutable dereference makes an absent
\* path the present empty path and keeps a present one, so the path is
\* present after it; neither panics.
C30_Dereferences ==
    [][/\ op' = "deref"
           => /\ raw' = raw /\ path' = path /\ ~panicked'
              /\ path = None => deref' = <<>>
       /\ op' = "deref_mut"
           => /\ raw' = raw /\ ~panicked'
              /\ IsSome(path')
              /\ path = None => path' = Some(<<>>)
              /\ IsSome(path) => path' = path]_vars

\* an EnvPath with a raw sequence and never resolved was dereferenced
\* mutably
C30_Witness ==
    /\ op = "deref_mut"
    /\ raw # <<>>
    /\ trace = <<>>
    /\ path = Some(<<>>)
    /\ deref = <<>>

====
